---- MODULE Spec2Model ----
(***************************************************************************)
(* The Streamlit macro dashboard of src/app.py: the configuration of the   *)
(* FRED client, the cached data engine get_data_bundle (fetch, forward     *)
(* fill, derive, inner join, forward fill) and the KPI classification of   *)
(* the latest row.                                                         *)
(*                                                                         *)
(* Units.  Dates are day numbers 1..MaxDate.  A cell of a frame is a set:  *)
(* {} is NaN and {x} the number x, so that arithmetic propagates NaN and   *)
(* a comparison with NaN is false, as in pandas.  Balances are in millions *)
(* of USD and multiples of 1000, so that "/ 1000" is exact; rates are in   *)
(* hundredths of a percentage point (5.32 is 532, the threshold 0.05 is    *)
(* 5).  Floating-point rounding is not modelled.                           *)
(***************************************************************************)
EXTENDS Integers, Sequences, FiniteSets, TLC

\* ------------------------------------------------------------------ bounds
MaxDate == 3
MaxTicks == 4

Dates == 1..MaxDate

\* ------------------------------------------------------- program constants
\* @st.cache_data(ttl=3600)
TTL == 3600
\* "spread > 0.05", in hundredths of a percentage point
StressThreshold == 5

\* the clock advances in steps of a third of the TTL
TickSeconds == TTL \div 3

\* ------------------------------------------------------------------- cells
NaN == {}
Cell(x) == {x}
notna(c) == c # NaN
Minus(a, b) == {x - y : x \in a, y \in b}
DivBy(a, k) == {x \div k : x \in a}
GreaterThan(c, t) == \E x \in c : x > t

\* ------------------------------------------------------------- the columns
tickers == <<"SPY", "QQQ", "^TNX">>
mapper == [t \in {"^TNX", "QQQ", "SPY"} |->
             IF t = "^TNX" THEN "10Y_Yield" ELSE t]
StockCols == {mapper[tickers[i]] : i \in 1..Len(tickers)}

\* the keys of macro_series, in the order the dict literal evaluates them
MacroCols == <<"Total_Assets", "TGA", "RRP", "SOFR", "EFFR">>
MacroColSet == {MacroCols[i] : i \in 1..Len(MacroCols)}
SeriesId == [c \in MacroColSet |->
               CASE c = "Total_Assets" -> "WALCL"
                 [] c = "TGA" -> "WTREGEN"
                 [] c = "RRP" -> "RRPONTSYD"
                 [] c = "SOFR" -> "SOFR"
                 [] c = "EFFR" -> "EFFR"]
DerivedCols == {"Net_Liquidity", "Rate_Spread"}
AllCols == StockCols \cup MacroColSet \cup DerivedCols

\* pd.DataFrame(): no rows.  A frame is the sequence of its rows, a row is
\* [date |-> d, v |-> [column |-> cell]].
EmptyFrame == <<>>

\* ------------------------------------------------------------ the providers
\* What a provider holds for a date.  The value a series publishes on a date
\* is fixed per series and date; a world chooses which series publish when.
Published(c, d) ==
    CASE c = "Total_Assets" -> 8000000 + 100000 * (d - 1)
      [] c = "TGA" -> 700000 + 50000 * (d - 1)
      [] c = "RRP" -> 300000 + 20000 * (d - 1)
      [] c = "SOFR" -> IF d = 1 THEN 532 ELSE IF d = 2 THEN 535 ELSE 540
      [] c = "EFFR" -> IF d = 1 THEN 533 ELSE 530

Close(t, d) ==
    CASE t = "SPY" -> 500 + d
      [] t = "QQQ" -> 400 + d
      [] t = "^TNX" -> 4

\* The observations FRED returns for one date: val are the series with a
\* number, nan the series whose observation is "." (fredapi makes it NaN).
PubPatterns ==
    << [val |-> {}, nan |-> {}],
       [val |-> {}, nan |-> {"SOFR", "EFFR"}],
       [val |-> {"TGA", "RRP"}, nan |-> {}],
       [val |-> {"SOFR"}, nan |-> {"EFFR"}],
       [val |-> {"SOFR", "EFFR"}, nan |-> {}],
       [val |-> MacroColSet, nan |-> {}] >>

Fetches == {"yf"} \cup {SeriesId[c] : c \in MacroColSet}

\* A world, what the two providers would answer now, is a record
\* [down, eq, dup, pub]: down names the one call that raises ("none": every
\* call answers); eq[d] says whether d is a trading day (the equity provider
\* has a row for it); dup whether the equity answer repeats its last row (one
\* date twice); pub[d] is the pattern of FRED's observations for date d.

\* yf.download(tickers, start=..., interval='1d')['Close']: one row per
\* trading day from start on, ascending, a column per ticker.
RECURSIVE CloseRowsFrom(_, _)
CloseRowsFrom(w, d) ==
    IF d > MaxDate THEN <<>>
    ELSE (IF w.eq[d]
          THEN << [date |-> d,
                   v |-> [t \in DOMAIN mapper |-> Cell(Close(t, d))]] >>
          ELSE <<>>)
         \o CloseRowsFrom(w, d + 1)

yf_download(w, start) ==
    LET rows == CloseRowsFrom(w, start)
    IN IF w.dup /\ rows # <<>> THEN Append(rows, rows[Len(rows)]) ELSE rows

\* fred.get_series(id, observation_start=...): a Series keyed by date (a
\* dict: no date twice), a function from its dates to cells.
get_series(w, c, start) ==
    [d \in {e \in Dates : /\ e >= start
                          /\ c \in PubPatterns[w.pub[e]].val
                                   \cup PubPatterns[w.pub[e]].nan} |->
        IF c \in PubPatterns[w.pub[d]].val THEN Cell(Published(c, d)) ELSE NaN]

\* ------------------------------------------------------------------ pandas
RECURSIVE SortedDates(_)
SortedDates(S) ==
    IF S = {} THEN <<>>
    ELSE LET m == CHOOSE x \in S : \A y \in S : x <= y
         IN <<m>> \o SortedDates(S \ {m})

\* stock_data.rename(columns=mapper)
rename(frame, m) ==
    [i \in 1..Len(frame) |->
        [date |-> frame[i].date,
         v |-> [c \in {m[t] : t \in DOMAIN frame[i].v} |->
                  frame[i].v[CHOOSE t \in DOMAIN frame[i].v : m[t] = c]]]]

\* pd.DataFrame(dict of Series): the index is the sorted union of the
\* series' dates, a series without the date gives NaN.
DataFrame(series) ==
    LET idx == SortedDates(UNION {DOMAIN series[c] : c \in DOMAIN series})
    IN [i \in 1..Len(idx) |->
          [date |-> idx[i],
           v |-> [c \in DOMAIN series |->
                    IF idx[i] \in DOMAIN series[c]
                    THEN series[c][idx[i]] ELSE NaN]]]

\* fillna(method='ffill'): a forward pass down the rows, every column apart:
\* a missing cell takes the cell of the row above, already filled.
fill_row(row, above) ==
    [row EXCEPT !.v = [c \in DOMAIN row.v |->
                         IF notna(row.v[c]) THEN row.v[c] ELSE above.v[c]]]

RECURSIVE ffill_from(_, _, _)
ffill_from(frame, i, done) ==
    IF i > Len(frame) THEN done
    ELSE ffill_from(frame, i + 1,
                    Append(done, IF i = 1 THEN frame[i]
                                 ELSE fill_row(frame[i], done[i - 1])))

ffill(frame) == ffill_from(frame, 1, <<>>)

\* macro_df[name] = column: one more column, a cell per row
assign(frame, name, column) ==
    [i \in 1..Len(frame) |->
        [frame[i] EXCEPT !.v =
            [c \in DOMAIN frame[i].v \cup {name} |->
                IF c = name THEN column[i] ELSE frame[i].v[c]]]]

\* (mutant) how='left': every left row, NaN where the right has no such date
join_left(left, right) ==
    [i \in 1..Len(left) |->
        LET l == left[i]
            m == {j \in 1..Len(right) : right[j].date = l.date}
        IN [date |-> l.date,
            v |-> [c \in DOMAIN l.v \cup MacroColSet \cup DerivedCols |->
                     IF c \in DOMAIN l.v THEN l.v[c]
                     ELSE IF m = {} THEN NaN
                     ELSE right[CHOOSE j \in m : TRUE].v[c]]]]

\* left.join(right, how='inner'): the left rows whose date the right index
\* holds, in the left's order, with the right row's columns added.  The
\* right index (macro_df) has no date twice.
RECURSIVE join_inner(_, _)
join_inner(left, right) ==
    IF left = <<>> THEN <<>>
    ELSE LET l == Head(left)
             m == {j \in 1..Len(right) : right[j].date = l.date}
         IN (IF m = {} THEN <<>>
             ELSE LET r == right[CHOOSE j \in m : TRUE]
                  IN << [date |-> l.date,
                         v |-> [c \in DOMAIN l.v \cup DOMAIN r.v |->
                                  IF c \in DOMAIN l.v THEN l.v[c]
                                  ELSE r.v[c]]] >>)
            \o join_inner(Tail(left), right)

\* sort_index(): ascending by date, rows of one date keeping their order
RECURSIVE Insert(_, _)
Insert(sorted, row) ==
    IF sorted = <<>> THEN <<row>>
    ELSE IF row.date < Head(sorted).date THEN <<row>> \o sorted
    ELSE <<Head(sorted)>> \o Insert(Tail(sorted), row)

RECURSIVE sort_index(_)
sort_index(frame) ==
    IF frame = <<>> THEN <<>>
    ELSE Insert(sort_index(SubSeq(frame, 1, Len(frame) - 1)),
                frame[Len(frame)])

\* ------------------------------------------------------- get_data_bundle
\* "C. model computation": both derived columns, on macro_df
Net_Liquidity(v) == DivBy(Minus(Minus(v["Total_Assets"], v["TGA"]), v["RRP"]), 1000)
Rate_Spread(v) == Minus(v["SOFR"], v["EFFR"])

\* (mutant) the first forward fill left out
no_fill(macro_df) == macro_df

\* (mutant) forward fill, then back fill of what is still missing
Reverse(frame) == [i \in 1..Len(frame) |-> frame[Len(frame) + 1 - i]]
fill_both_ways(macro_df) == Reverse(ffill(Reverse(ffill(macro_df))))

\* macro_df = macro_df.fillna(method='ffill')
fill_macro(macro_df) == ffill(macro_df)

derive(macro_df) ==
    LET with_liquidity ==
          assign(macro_df, "Net_Liquidity",
                 [i \in 1..Len(macro_df) |-> Net_Liquidity(macro_df[i].v)])
    IN assign(with_liquidity, "Rate_Spread",
              [i \in 1..Len(with_liquidity) |-> Rate_Spread(with_liquidity[i].v)])

\* df_final = stock_data.join(macro_df, how='inner').sort_index()
\* df_final = df_final.fillna(method='ffill')
align(stock_data, macro_df) == ffill(sort_index(join_inner(stock_data, macro_df)))

\* (mutant) the derived columns computed before the forward fill
derive_then_fill(macro_series) == fill_macro(derive(DataFrame(macro_series)))

\* lines 70-81: the frame, forward filled, then the derived columns
macro_table(macro_series) == derive(fill_macro(DataFrame(macro_series)))

\* what each except branch returns
stock_failed == EmptyFrame
\* (mutant) the equity columns alone when a macro call raised
macro_failed_partial(stock_data) == stock_data
macro_failed(stock_data) == EmptyFrame

\* The macro calls that raise: the one the world has down, every one when
\* the client's key is not a valid one (FRED refuses the request).
Raising(w, client) ==
    {i \in 1..Len(MacroCols) :
        client # "valid" \/ w.down = SeriesId[MacroCols[i]]}

Min(S) == CHOOSE x \in S : \A y \in S : x <= y

\* The body of get_data_bundle(start_date_str): the table returned, the
\* provider calls issued, in order, and the st.error shown ("" if none).
\* client is the module's fred: "undefined" when Fred(...) raised, else the
\* kind of key the client was built with.
get_data_bundle(start, w, client) ==
    IF w.down = "yf"
    THEN [ret |-> stock_failed, calls |-> <<"yf">>, err |-> "stock"]
    ELSE
    LET stock_data == rename(yf_download(w, start), mapper) IN
    IF client = "undefined"
    THEN [ret |-> macro_failed(stock_data), calls |-> <<"yf">>, err |-> "macro"]
    ELSE
    LET bad == Raising(w, client) IN
    IF bad # {}
    THEN [ret |-> macro_failed(stock_data),
          calls |-> <<"yf">> \o [i \in 1..Min(bad) |-> SeriesId[MacroCols[i]]],
          err |-> "macro"]
    ELSE
    LET macro_series == [c \in MacroColSet |-> get_series(w, c, start)]
        macro_df == macro_table(macro_series)
    IN [ret |-> align(stock_data, macro_df),
        calls |-> <<"yf">> \o [i \in 1..Len(MacroCols) |-> SeriesId[MacroCols[i]]],
        err |-> ""]

\* ---------------------------------------------------------- st.cache_data
NoEntry == [has |-> FALSE, value |-> EmptyFrame, storedAt |-> 0]

\* (mutant) no entry is ever served: every pass runs the body
cache_disabled(entry, t) == FALSE

\* an entry is served until ttl seconds after it was stored
cache_fresh(entry, t) == entry.has /\ t < entry.storedAt + TTL

\* (mutant) an empty result is not stored
cache_store_nonempty(c, key, value, t) ==
    IF value = EmptyFrame THEN c
    ELSE [c EXCEPT ![key] = [has |-> TRUE, value |-> value, storedAt |-> t]]

\* the return value is stored under the argument, whatever it is
cache_store(c, key, value, t) ==
    [c EXCEPT ![key] = [has |-> TRUE, value |-> value, storedAt |-> t]]

\* ------------------------------------------------------------------ render
\* (mutant) the threshold itself counted as stressed
classify_ge(spread) ==
    IF \E x \in spread : x >= StressThreshold THEN "stressed" ELSE "normal"

\* state = "stressed" if spread > 0.05 else "normal"
classify(spread) ==
    IF GreaterThan(spread, StressThreshold) THEN "stressed" ELSE "normal"

\* ------------------------------------------------------------------- state
VARIABLES
    secrets,         \* st.secrets["FRED_API_KEY"]: "valid", "invalid", "missing"
    ctorRejects,     \* whether Fred(api_key=...) raises on a key that is not valid
    FRED_API_KEY,    \* "unset", "valid", "invalid", "placeholder"
    fred,            \* "undefined", or the kind of key of the client
    pc,              \* where the script run stands
    start_date_fmt,  \* the start date (a day number; 0: not computed yet)
    now,             \* the clock, in seconds
    cache,           \* st.cache_data's entries of get_data_bundle, by argument
    world,           \* what the providers would answer now
    df,              \* the table line 129 got
    state,           \* the KPI's classification ("unset" before)
    calls,           \* provider calls issued in this script run, in order
    errors,          \* st.error / st.warning shown in this script run
    lastPass         \* history: per start date, the last pass and its result

vars == <<secrets, ctorRejects, FRED_API_KEY, fred, pc, start_date_fmt, now,
          cache, world, df, state, calls, errors, lastPass>>

env == <<secrets, ctorRejects>>

\* the start dates the sidebar can resolve to
StartDates == {1, 2}

NoPass == [seen |-> FALSE, at |-> 0, fetchedAt |-> 0, ret |-> EmptyFrame,
           failed |-> FALSE, hit |-> FALSE]

\* ----------------------------------------------------------------- actions
\* lines 19-28: the key, then the client
Configure ==
    /\ pc = "top"
    /\ LET key == IF secrets = "missing" THEN "placeholder" ELSE secrets
           raises == key # "valid" /\ ctorRejects
       IN /\ FRED_API_KEY' = key
          /\ fred' = IF raises THEN "undefined" ELSE key
          /\ errors' = IF raises THEN errors \cup {"config"} ELSE errors
    /\ pc' = "sidebar"
    /\ UNCHANGED <<env, start_date_fmt, now, cache, world, df, state, calls,
                   lastPass>>

\* lines 111-121: the lookback window, resolved to a start date
SelectRange ==
    /\ pc = "sidebar"
    /\ \E s \in StartDates : start_date_fmt' = s
    /\ pc' = "main"
    /\ UNCHANGED <<env, FRED_API_KEY, fred, now, cache, world, df, state,
                   calls, errors, lastPass>>

\* line 129, the entry is fresh: the stored value, the body does not run
CacheHit ==
    /\ pc = "main"
    /\ cache_fresh(cache[start_date_fmt], now)
    /\ df' = cache[start_date_fmt].value
    /\ lastPass' = [lastPass EXCEPT ![start_date_fmt] =
                      [seen |-> TRUE, at |-> now,
                       fetchedAt |-> cache[start_date_fmt].storedAt,
                       ret |-> cache[start_date_fmt].value,
                       failed |-> lastPass[start_date_fmt].failed,
                       hit |-> TRUE]]
    /\ pc' = "render"
    /\ UNCHANGED <<env, FRED_API_KEY, fred, start_date_fmt, now, cache, world,
                   state, calls, errors>>

\* line 129, no fresh entry: the body runs and its return value is stored
CacheMiss ==
    /\ pc = "main"
    /\ ~cache_fresh(cache[start_date_fmt], now)
    /\ \E r \in {get_data_bundle(start_date_fmt, world, fred)} :
          /\ df' = r.ret
          /\ calls' = calls \o r.calls
          /\ errors' = IF r.err = "" THEN errors ELSE errors \cup {r.err}
          /\ cache' = cache_store(cache, start_date_fmt, r.ret, now)
          /\ lastPass' = [lastPass EXCEPT ![start_date_fmt] =
                            [seen |-> TRUE, at |-> now, fetchedAt |-> now,
                             ret |-> r.ret, failed |-> r.err # "",
                             hit |-> FALSE]]
    /\ pc' = "render"
    /\ UNCHANGED <<env, FRED_API_KEY, fred, start_date_fmt, now, world, state>>

\* lines 131-149 and 272-273
Render ==
    /\ pc = "render"
    /\ IF df # EmptyFrame
       THEN LET latest == df[Len(df)]
                spread == latest.v["Rate_Spread"]
            IN state' = classify(spread) /\ UNCHANGED errors
       ELSE state' = "unset" /\ errors' = errors \cup {"warning"}
    /\ pc' = "done"
    /\ UNCHANGED <<env, FRED_API_KEY, fred, start_date_fmt, now, cache, world,
                   df, calls, lastPass>>

\* a user interaction: Streamlit runs the script again, from the top; only
\* the cache outlives the run
Rerun ==
    /\ pc = "done"
    /\ pc' = "top"
    /\ FRED_API_KEY' = "unset"
    /\ fred' = "undefined"
    /\ start_date_fmt' = 0
    /\ df' = EmptyFrame
    /\ state' = "unset"
    /\ calls' = <<>>
    /\ errors' = {}
    /\ UNCHANGED <<env, now, cache, world, lastPass>>

\* time passes
Tick ==
    /\ now < MaxTicks * TickSeconds
    /\ now' = now + TickSeconds
    /\ UNCHANGED <<env, FRED_API_KEY, fred, pc, start_date_fmt, cache, world,
                   df, state, calls, errors, lastPass>>

\* ------------------------------------------------------------------- Init
Fresh ==
    /\ FRED_API_KEY = "unset"
    /\ fred = "undefined"
    /\ pc = "top"
    /\ start_date_fmt = 0
    /\ now = 0
    /\ cache = [s \in StartDates |-> NoEntry]
    /\ df = EmptyFrame
    /\ state = "unset"
    /\ calls = <<>>
    /\ errors = {}
    /\ lastPass = [s \in StartDates |-> NoPass]

\* One run of the script with a valid key: every world whose calls all
\* answer and, for each call, worlds where it alone raises.
Answering ==
    [down : {"none"}, eq : [Dates -> BOOLEAN], dup : BOOLEAN,
     pub : [Dates -> 1..Len(PubPatterns)]]
Failing ==
    [down : Fetches, eq : [Dates -> {TRUE}], dup : {FALSE},
     pub : [Dates -> {3, Len(PubPatterns)}]]

InitAlign ==
    /\ secrets = "valid"
    /\ ctorRejects = FALSE
    /\ world \in Answering \cup Failing
    /\ Fresh

NextAlign == Configure \/ SelectRange \/ CacheMiss \/ Render

SpecAlign == InitAlign /\ [][NextAlign]_vars

\* The script run again and again while time passes and the providers'
\* answers change; the key configured or not.
LiveWorlds ==
    [down : {"none", "yf", "SOFR"},
     eq   : [Dates -> {TRUE}],
     dup  : {FALSE},
     pub  : {p \in [Dates -> {1, Len(PubPatterns)}] :
                \A d \in Dates : d < MaxDate => p[d] = Len(PubPatterns)}]

ProvidersChange ==
    /\ \E w \in LiveWorlds : w # world /\ world' = w
    /\ UNCHANGED <<env, FRED_API_KEY, fred, pc, start_date_fmt, now, cache, df,
                   state, calls, errors, lastPass>>

Init ==
    /\ secrets \in {"valid", "invalid", "missing"}
    /\ ctorRejects \in BOOLEAN
    /\ world \in LiveWorlds
    /\ Fresh

Next ==
    \/ Configure
    \/ SelectRange
    \/ CacheHit
    \/ CacheMiss
    \/ Render
    \/ Rerun
    \/ Tick
    \/ ProvidersChange

Spec == Init /\ [][Next]_vars

\* ------------------------------------------------------------------ claims
\* What the claims speak of: the pass of this run, the providers' answers
\* to it, and the table's rows.
Returned == pc \in {"render", "done"} /\ ~lastPass[start_date_fmt].failed
Answers == [c \in MacroColSet |-> get_series(world, c, start_date_fmt)]
EquityRows == yf_download(world, start_date_fmt)
EquityDates == {EquityRows[i].date : i \in 1..Len(EquityRows)}
MacroDates == UNION {DOMAIN Answers[c] : c \in MacroColSet}
RowDates == {df[i].date : i \in 1..Len(df)}
\* the dates on or before t on which a series, of answer obs, published a
\* number
ValueDates(obs, t) == {d \in DOMAIN obs : d <= t /\ notna(obs[d])}
Max(S) == CHOOSE x \in S : \A y \in S : x >= y

\* C1 (as claimed): the row index of a returned table is exactly the set of
\* dates of the equity provider's answer.
C1_IndexIsEquityDates ==
    (Returned /\ df # EmptyFrame) => RowDates = EquityDates

\* C1 (amended): the row index of a returned table is exactly the set of
\* equity dates on which at least one macro series has an observation; an
\* equity date on which no macro series has one has no row.
C1_IndexIsEquityAndMacroDates ==
    Returned => RowDates = EquityDates \cap MacroDates

\* a table with rows was returned although a trading date has no macro
\* observation
C1_Witness ==
    /\ Returned
    /\ df # EmptyFrame
    /\ \E d \in EquityDates : d \notin MacroDates

\* C2 (as claimed): each number a macro series published appears on the row
\* of every trading day from its publication date until the series' next
\* number.
C2_OnEveryTradingDay ==
    (Returned /\ df # EmptyFrame) =>
      \A c \in MacroColSet : \E obs \in {Answers[c]} :
        \A t \in EquityDates :
          ValueDates(obs, t) # {} =>
              \E i \in 1..Len(df) :
                  /\ df[i].date = t
                  /\ df[i].v[c] = obs[Max(ValueDates(obs, t))]

\* C2 (amended): every row of the table carries, for each macro series, the
\* number the series last published on or before the row's date, also when
\* that publication date is not a trading day.
C2_CarryForward ==
    Returned =>
      \A c \in MacroColSet : \E obs \in {Answers[c]} :
        \A i \in 1..Len(df) :
          ValueDates(obs, df[i].date) # {} =>
              df[i].v[c] = obs[Max(ValueDates(obs, df[i].date))]

\* a number published on a day that is no trading day stands on a later row
C2_Witness ==
    /\ Returned
    /\ \E c \in MacroColSet : \E obs \in {Answers[c]} :
        \E i \in 1..Len(df) :
          /\ ValueDates(obs, df[i].date) # {}
          /\ Max(ValueDates(obs, df[i].date)) \notin EquityDates
          /\ df[i].v[c] = obs[Max(ValueDates(obs, df[i].date))]

\* C3: each macro column of a returned table is missing on a prefix of the
\* rows only, and a row with no number published on or before its date is
\* missing (not back-filled, not zero).
C3_MissingPrefixOnly ==
    Returned =>
      \A c \in MacroColSet : \E obs \in {Answers[c]} :
          /\ \A i \in 1..Len(df) : \A j \in i..Len(df) :
                notna(df[i].v[c]) => notna(df[j].v[c])
          /\ \A i \in 1..Len(df) :
                ValueDates(obs, df[i].date) = {} => df[i].v[c] = NaN

\* a column missing on the first row, published on the second, carried to
\* the third
C3_Witness ==
    /\ Returned
    /\ Len(df) >= 3
    /\ \E c \in MacroColSet :
          /\ df[1].v[c] = NaN
          /\ notna(df[2].v[c])
          /\ df[3].date \notin ValueDates(Answers[c], df[3].date)
          /\ df[3].v[c] = df[2].v[c]

\* C4 (as claimed): the row index of a returned table is strictly ascending
\* (no date twice) and every row date is a date of the equity answer.
C4_StrictlyAscending ==
    Returned =>
      /\ \A i \in 1..Len(df) : \A j \in 1..Len(df) :
            i < j => df[i].date < df[j].date
      /\ RowDates \subseteq EquityDates

\* C5: in every row of a returned table the derived columns are the formulas
\* of that row's own aligned inputs.
C5_DerivedConsistent ==
    Returned =>
      \A i \in 1..Len(df) :
          /\ df[i].v["Net_Liquidity"] =
                DivBy(Minus(Minus(df[i].v["Total_Assets"], df[i].v["TGA"]),
                            df[i].v["RRP"]), 1000)
          /\ df[i].v["Rate_Spread"] = Minus(df[i].v["SOFR"], df[i].v["EFFR"])

\* a row whose Total_Assets is carried forward while its TGA is that day's
C5_Witness ==
    /\ Returned
    /\ \E i \in 1..Len(df) :
          /\ notna(df[i].v["Net_Liquidity"])
          /\ df[i].date \notin ValueDates(Answers["Total_Assets"], df[i].date)
          /\ df[i].date \in ValueDates(Answers["TGA"], df[i].date)

\* C6: the pass returns the full table or nothing: when the equity call or
\* any one macro call raises the result is empty, and a table with rows has
\* all ten columns and comes from a pass in which every call answered.
C6_AllOrNothing ==
    pc \in {"render", "done"} =>
      /\ world.down # "none" => df = EmptyFrame
      /\ df # EmptyFrame =>
            /\ calls = <<"yf">> \o [i \in 1..Len(MacroCols) |-> SeriesId[MacroCols[i]]]
            /\ \A i \in 1..Len(df) : DOMAIN df[i].v = AllCols

\* one macro call raised after the equity call and others had answered
C6_Witness ==
    /\ pc = "render"
    /\ world.down = "SOFR"
    /\ Len(calls) = 5
    /\ EquityRows # <<>>
    /\ df = EmptyFrame

\* C9: the state is "stressed" exactly when the latest row's Rate_Spread is
\* above 0.05, "normal" otherwise; 5.32 against 5.33 is normal, 5.40
\* against 5.30 is stressed.
C9_Threshold ==
    (pc = "done" /\ df # EmptyFrame) =>
      LET latest == df[Len(df)] IN
      /\ state = "stressed" <=> \E x \in latest.v["Rate_Spread"] : x > 5
      /\ state = "normal" <=> ~(\E x \in latest.v["Rate_Spread"] : x > 5)
      /\ (latest.v["SOFR"] = {532} /\ latest.v["EFFR"] = {533}) => state = "normal"
      /\ (latest.v["SOFR"] = {540} /\ latest.v["EFFR"] = {530}) => state = "stressed"

\* a spread of exactly 0.05 classified normal
C9_Witness ==
    /\ pc = "done"
    /\ df # EmptyFrame
    /\ df[Len(df)].v["Rate_Spread"] = {5}
    /\ state = "normal"

\* C7 (as claimed): with no valid key configured no provider call is ever
\* issued, and the error is not first met inside get_data_bundle.
C7_NoFetchWithoutKey ==
    secrets # "valid" =>
      /\ calls = <<>>
      /\ "macro" \in errors => "config" \in errors

\* a pass of get_data_bundle for start date s ends in this step
Pass(s) == pc = "main" /\ pc' = "render" /\ start_date_fmt = s

\* C8 (as claimed): two passes for one start date less than the TTL apart
\* return the same table.
C8_SameWithinTTLOfLastPass ==
    [][\A s \in StartDates :
         (Pass(s) /\ lastPass[s].seen /\ now - lastPass[s].at < TTL)
            => df' = lastPass[s].ret]_vars

\* C8 (amended): a pass for a start date issued less than the TTL after the
\* fetch whose table the previous pass for that date returned, returns that
\* same table, whatever the providers would answer now; and the table of a
\* pass is one fetched for its own start date (no row before it).
C8_SameWithinCacheWindow ==
    [][\A s \in StartDates :
         /\ (Pass(s) /\ lastPass[s].seen /\ now - lastPass[s].fetchedAt < TTL)
               => df' = lastPass[s].ret
         /\ Pass(s) => \A i \in 1..Len(df') : df'[i].date >= s]_vars

\* a pass was served the stored table while the providers would now answer
\* with another
C8_Witness ==
    /\ pc = "render"
    /\ lastPass[start_date_fmt].hit
    /\ now > lastPass[start_date_fmt].fetchedAt
    /\ df # get_data_bundle(start_date_fmt, world, fred).ret

\* C10: after a pass for a start date ended in a provider failure, every
\* pass for that date less than the TTL later returns the empty result and
\* issues no provider call.
C10_FailureCached ==
    [][\A s \in StartDates :
         (Pass(s) /\ lastPass[s].seen /\ lastPass[s].failed
             /\ now - lastPass[s].fetchedAt < TTL)
            => df' = EmptyFrame /\ calls' = calls]_vars

\* a pass was served the stored failure while every call would now answer
C10_Witness ==
    /\ pc = "render"
    /\ lastPass[start_date_fmt].hit
    /\ lastPass[start_date_fmt].failed
    /\ secrets = "valid"
    /\ world.down = "none"
    /\ calls = <<>>
    /\ df = EmptyFrame

====
